---- MODULE Spec2Model ----
(***************************************************************************)
(* The Annotate page of audino (frontend/src/pages/annotate.js): the       *)
(* segment records held by the waveform's region list, the selection       *)
(* pointer this.state.selectedSegment, and the create / update / delete    *)
(* requests the page issues to the backend. The GET of the data list and   *)
(* the PATCH of the review flag are modelled by what they do to            *)
(* isDataLoading and to the two messages; the fields they fill besides     *)
(* (data, count, nextDataId, isMarkedForReview, ...) are not modelled.     *)
(*                                                                         *)
(* A region object is identified by its position in objs (the object       *)
(* heap): an object lives on after its removal from regions.list, because  *)
(* closures and this.state may still hold a reference to it.               *)
(* JavaScript's undefined is written Undefined (a transcription) and       *)
(* NoId (a segmentation_id); null state fields are written Null / NullMsg. *)
(***************************************************************************)
EXTENDS Integers, Sequences, FiniteSets, TLC

VARIABLES
    dataLoad,           \* the axios.all GET of labels and data: "pending" | "done" | "failed"
    isDataLoading,      \* this.state.isDataLoading
    labels,             \* this.state.labels, a set of label definitions
    ready,              \* wavesurfer has fired "ready"
    objs,               \* every region object ever created, by region id
    list,               \* wavesurfer.regions.list: region ids, in insertion order
    selectedSegment,    \* this.state.selectedSegment: a region id or Null
    isSegmentSaving,    \* this.state.isSegmentSaving (undefined counts as FALSE)
    isSegmentDeleting,  \* this.state.isSegmentDeleting
    errorMessage,       \* this.state.errorMessage
    successMessage,     \* this.state.successMessage
    saveRequests,       \* POST / PUT requests in flight, in order of issue
    deleteRequests,     \* DELETE requests in flight, in order of issue
    nextBackendId,      \* the identifier the backend gives its next created row
    origin,             \* history: how each region object came to be
    isPlaying,          \* this.state.isPlaying
    segmentTranscription, \* the textContent of the read-only transcription line
    segmentations,      \* history: the segmentation list the data load returned
    listLoad,           \* the GET of the data list (apiUrl): "pending" | "done" | "failed"
    reviewRequests,     \* the number of PATCH is_marked_for_review requests in flight
    lastEvent           \* history: the handler that ran last, its record and its input

vars == <<dataLoad, isDataLoading, labels, ready, objs, list,
          selectedSegment, isSegmentSaving, isSegmentDeleting, errorMessage,
          successMessage, saveRequests, deleteRequests, nextBackendId,
          isPlaying, segmentTranscription, origin, segmentations, listLoad,
          reviewRequests, lastEvent>>

(***************************************************************************)
(* Bounds.                                                                 *)
(***************************************************************************)
\* The longest segmentation list the backend returns at load time.
MaxSegs == 2
\* The number of region objects created during one session.
MaxRegions == 2
\* The audio duration wavesurfer.getDuration() reports, in seconds.
Duration == 2
\* The longest segmentation list loaded when the label selects are explored.
MaxEditSegs == 2
\* The most PATCH requests of the review flag in flight together.
MaxReviews == 1

(***************************************************************************)
(* Values.                                                                 *)
(***************************************************************************)
Null == 0
NoId == 0
Undefined == "<undefined>"
NullMsg == "<null>"
SavedMsg == "Segment saved"
SaveErrorMsg == "Error saving segment"
ReviewedMsg == "Marked for review status changed"
ReviewErrorMsg == "Error changing review status"

RangeOf(s) == {s[i] : i \in DOMAIN s}

\* The label catalog the backend serves (response[0].data).
LabelCatalog ==
    { [key |-> "mood", label_id |-> 1, type |-> "select", values |-> {"3", "4"}],
      [key |-> "tags", label_id |-> 2, type |-> "multiselect", values |-> {"2", "5"}] }

\* An annotations object: undefined, or a mapping kept as a set of entries,
\* at most one per label key.
UndefinedAnnotations == [defined |-> FALSE, entries |-> {}]
EmptyAnnotations == [defined |-> TRUE, entries |-> {}]
MoodAnnotations ==
    [defined |-> TRUE,
     entries |-> {[key |-> "mood", label_id |-> 1, multi |-> FALSE, values |-> {"3"}]}]

\* The rows of the backend's segmentation table for this audio item.
BackendRow(i) ==
    [segmentation_id |-> i,
     start_time |-> (i - 1) % Duration,
     end_time |-> ((i - 1) % Duration) + 1,
     transcription |-> IF i % 2 = 1 THEN "hello" ELSE "",
     annotations |-> IF i % 2 = 1 THEN MoodAnnotations ELSE EmptyAnnotations]

\* The segmentation lists the backend may return: every ordering of every
\* selection of rows, the empty list included; identifiers are distinct.
RECURSIVE ListsOver(_)
ListsOver(ids) ==
    {<< >>} \cup UNION { { <<BackendRow(i)>> \o rest : rest \in ListsOver(ids \ {i}) }
                         : i \in ids }
BackendLists == ListsOver(1 .. MaxSegs)

\* The time ranges a drag selection can produce.
TimeRanges == { <<s, e>> \in (0 .. Duration) \X (0 .. Duration) : s < e }

\* The region object wavesurfer builds from addRegion's parameter: a region
\* without data gets data = {}.
NewRegion(start, end) ==
    [start |-> start, end |-> end,
     data |-> [segmentation_id |-> NoId, transcription |-> Undefined,
               annotations |-> UndefinedAnnotations]]

\* componentDidMount, the regions built from the segmentations.
RegionOf(segmentation) ==
    [start |-> segmentation.start_time,
     end |-> segmentation.end_time,
     data |-> [segmentation_id |-> segmentation.segmentation_id,
               transcription |-> segmentation.transcription,
               annotations |-> segmentation.annotations]]

InList(r) == r \in RangeOf(list)

Remove(s, r) == SelectSeq(s, LAMBDA x : x # r)

RemoveAt(s, i) == SubSeq(s, 1, i - 1) \o SubSeq(s, i + 1, Len(s))

\* The text shown for a region without (or with an empty) transcription.
NoText == "-"

\* An event of the history: the handler, the record it acted on and, for an
\* edit, the label key and the values the control reported.
InputEvent(op, seg, key, values) ==
    [op |-> op, seg |-> seg, key |-> key, values |-> values]
Event(op, seg) == InputEvent(op, seg, "", {})

(***************************************************************************)
(* Init: the page is constructed and componentDidMount has issued the two  *)
(* loads.                                                                  *)
(***************************************************************************)
Init ==
    /\ dataLoad = "pending"
    /\ isDataLoading = TRUE
    /\ labels = {}
    /\ ready = FALSE
    /\ objs = << >>
    /\ list = << >>
    /\ selectedSegment = Null
    /\ isSegmentSaving = FALSE
    /\ isSegmentDeleting = FALSE
    /\ errorMessage = NullMsg
    /\ successMessage = NullMsg
    /\ saveRequests = << >>
    /\ deleteRequests = << >>
    /\ nextBackendId = MaxSegs + 1
    /\ isPlaying = FALSE
    /\ segmentTranscription = NoText
    /\ origin = << >>
    /\ segmentations = << >>
    /\ listLoad = "pending"
    /\ reviewRequests = 0
    /\ lastEvent = Event("mount", Null)

(***************************************************************************)
(* The load of labels and segmentation data (axios.all).                   *)
(***************************************************************************)
\* loadRegions gone wrong: every region is added twice.
LoadRegionsTwice(regions) ==
    /\ objs' = objs \o regions \o regions
    /\ list' = list \o [i \in 1 .. 2 * Len(regions) |-> Len(objs) + i]
    /\ origin' = origin \o [i \in 1 .. 2 * Len(regions) |-> "hydrated"]

\* loadRegions: one addRegion per region, in order.
LoadRegions(regions) ==
    /\ objs' = objs \o regions
    /\ list' = list \o [i \in 1 .. Len(regions) |-> Len(objs) + i]
    /\ origin' = origin \o [i \in 1 .. Len(regions) |-> "hydrated"]

DataLoadSuccess(segs) ==
    /\ dataLoad = "pending"
    /\ dataLoad' = "done"
    /\ isDataLoading' = FALSE
    /\ labels' = LabelCatalog
    /\ segmentations' = segs
    /\ LoadRegions([i \in 1 .. Len(segs) |-> RegionOf(segs[i])])
    /\ lastEvent' = Event("dataLoaded", Null)
    /\ UNCHANGED <<ready, selectedSegment, isSegmentSaving,
                   isSegmentDeleting, errorMessage, successMessage,
                   saveRequests, deleteRequests, nextBackendId>>
    /\ UNCHANGED <<isPlaying, segmentTranscription>>
    /\ UNCHANGED <<listLoad, reviewRequests>>

\* The data response carries no segmentations array: segmentations.map
\* throws after the labels were stored, and the catch handler runs.
DataLoadMalformed ==
    /\ dataLoad = "pending"
    /\ dataLoad' = "failed"
    /\ labels' = LabelCatalog
    /\ isDataLoading' = FALSE
    /\ lastEvent' = Event("dataMalformed", Null)
    /\ UNCHANGED <<ready, objs, list, selectedSegment,
                   isSegmentSaving, isSegmentDeleting, errorMessage,
                   successMessage, saveRequests, deleteRequests,
                   nextBackendId, origin, segmentations>>
    /\ UNCHANGED <<isPlaying, segmentTranscription>>
    /\ UNCHANGED <<listLoad, reviewRequests>>

\* One of the two requests is rejected: only the catch handler runs.
DataLoadFailure ==
    /\ dataLoad = "pending"
    /\ dataLoad' = "failed"
    /\ isDataLoading' = FALSE
    /\ lastEvent' = Event("dataFailed", Null)
    /\ UNCHANGED <<labels, ready, objs, list, selectedSegment,
                   isSegmentSaving, isSegmentDeleting, errorMessage,
                   successMessage, saveRequests, deleteRequests,
                   nextBackendId, origin, segmentations>>
    /\ UNCHANGED <<isPlaying, segmentTranscription>>
    /\ UNCHANGED <<listLoad, reviewRequests>>

(***************************************************************************)
(* Waveform events.                                                        *)
(***************************************************************************)
\* The "ready" handler gone wrong: the full-duration region is added
\* whether or not the list is empty.
ReadyAlwaysAdds ==
    /\ dataLoad = "done"
    /\ ~ready
    /\ ready' = TRUE
    /\ objs' = Append(objs, NewRegion(0, Duration))
    /\ list' = Append(list, Len(objs) + 1)
    /\ origin' = Append(origin, "auto")
    /\ selectedSegment' = Len(objs) + 1
    /\ lastEvent' = Event("ready", Null)
    /\ UNCHANGED <<dataLoad, isDataLoading, labels, isSegmentSaving,
                   isSegmentDeleting, errorMessage, successMessage,
                   saveRequests, deleteRequests, nextBackendId, segmentations>>
    /\ UNCHANGED <<isPlaying, segmentTranscription>>
    /\ UNCHANGED <<listLoad, reviewRequests>>

\* The "ready" handler gone wrong: the region added to an empty list is
\* not selected.
ReadyNoSelect ==
    /\ dataLoad = "done"
    /\ ~ready
    /\ ready' = TRUE
    /\ IF Len(list) = 0
       THEN /\ objs' = Append(objs, NewRegion(0, Duration))
            /\ list' = Append(list, Len(objs) + 1)
            /\ origin' = Append(origin, "auto")
       ELSE UNCHANGED <<objs, list, origin>>
    /\ lastEvent' = Event("ready", Null)
    /\ UNCHANGED <<dataLoad, isDataLoading, labels, selectedSegment,
                   isSegmentSaving, isSegmentDeleting, errorMessage,
                   successMessage, saveRequests, deleteRequests,
                   nextBackendId, segmentations>>
    /\ UNCHANGED <<isPlaying, segmentTranscription>>
    /\ UNCHANGED <<listLoad, reviewRequests>>

\* wavesurfer.on("ready"): fired once, after wavesurfer.load of the success
\* handler. With no region in the list, one spanning the audio is added and
\* selected.
Ready ==
    /\ dataLoad = "done"
    /\ ~ready
    /\ ready' = TRUE
    /\ IF Len(list) = 0
       THEN /\ objs' = Append(objs, NewRegion(0, Duration))
            /\ list' = Append(list, Len(objs) + 1)
            /\ origin' = Append(origin, "auto")
            /\ selectedSegment' = Len(objs) + 1
       ELSE UNCHANGED <<objs, list, origin, selectedSegment>>
    /\ lastEvent' = Event("ready", Null)
    /\ UNCHANGED <<dataLoad, isDataLoading, labels, isSegmentSaving,
                   isSegmentDeleting, errorMessage, successMessage,
                   saveRequests, deleteRequests, nextBackendId, segmentations>>
    /\ UNCHANGED <<isPlaying, segmentTranscription>>
    /\ UNCHANGED <<listLoad, reviewRequests>>

\* The user drags over the waveform (enabled by enableDragSelection in the
\* "ready" handler): the regions plugin adds a region without data.
DrawRegion(start, end) ==
    /\ ready
    /\ Len(objs) < MaxRegions
    /\ objs' = Append(objs, NewRegion(start, end))
    /\ list' = Append(list, Len(objs) + 1)
    /\ origin' = Append(origin, "drawn")
    /\ lastEvent' = Event("draw", Len(objs) + 1)
    /\ UNCHANGED <<dataLoad, isDataLoading, labels, ready,
                   selectedSegment, isSegmentSaving, isSegmentDeleting,
                   errorMessage, successMessage, saveRequests, deleteRequests,
                   nextBackendId, segmentations>>
    /\ UNCHANGED <<isPlaying, segmentTranscription>>
    /\ UNCHANGED <<listLoad, reviewRequests>>

\* wavesurfer.on("region-click"): the regions that can be clicked are those
\* of regions.list, once the waveform is drawn ("ready"); before that the
\* audio has no duration and a region no extent.
RegionClick(r) ==
    /\ ready
    /\ InList(r)
    /\ isPlaying' = TRUE
    /\ selectedSegment' = r
    /\ lastEvent' = Event("click", r)
    /\ UNCHANGED <<dataLoad, isDataLoading, labels, ready, objs,
                   list, isSegmentSaving, isSegmentDeleting, errorMessage,
                   successMessage, saveRequests, deleteRequests,
                   nextBackendId, origin, segmentations>>
    /\ UNCHANGED segmentTranscription
    /\ UNCHANGED <<listLoad, reviewRequests>>

(***************************************************************************)
(* The editing controls.                                                   *)
(***************************************************************************)
\* render: the transcription box, the label selects and the Delete / Save
\* buttons are drawn when isDataLoading is false and a segment is selected.
ControlsShown == ~isDataLoading /\ selectedSegment # Null

\* SaveBody gone wrong: the annotations are not put into the request body.
SaveBodyWithoutAnnotations(region) ==
    [start |-> region.start, end |-> region.end,
     transcription |-> region.data.transcription,
     annotations |-> UndefinedAnnotations]

\* The request body of a save: { start, end, transcription, annotations }.
SaveBody(region) ==
    [start |-> region.start, end |-> region.end,
     transcription |-> region.data.transcription,
     annotations |-> region.data.annotations]

\* handleSegmentDelete gone wrong: the local branch does not reset
\* isSegmentDeleting.
HandleSegmentDeleteKeepsFlag ==
    /\ ControlsShown
    /\ ~isSegmentDeleting
    /\ LET seg == selectedSegment
           id == objs[seg].data.segmentation_id
       IN  IF id # NoId
           THEN /\ deleteRequests' = Append(deleteRequests, [seg |-> seg, id |-> id])
                /\ lastEvent' = Event("deleteRequested", seg)
                /\ UNCHANGED <<list, selectedSegment>>
           ELSE /\ list' = Remove(list, seg)
                /\ selectedSegment' = Null
                /\ lastEvent' = Event("deletedLocally", seg)
                /\ UNCHANGED deleteRequests
    /\ isSegmentDeleting' = TRUE
    /\ UNCHANGED <<dataLoad, isDataLoading, labels, ready, objs,
                   isSegmentSaving, errorMessage, successMessage,
                   saveRequests, nextBackendId, origin, segmentations>>
    /\ UNCHANGED <<isPlaying, segmentTranscription>>
    /\ UNCHANGED <<listLoad, reviewRequests>>

\* handleSegmentDelete, reached through the Delete button
\* (disabled = isSegmentDeleting).
HandleSegmentDelete ==
    /\ ControlsShown
    /\ ~isSegmentDeleting
    /\ LET seg == selectedSegment
           id == objs[seg].data.segmentation_id
       IN  IF id # NoId
           THEN /\ isSegmentDeleting' = TRUE
                /\ deleteRequests' = Append(deleteRequests, [seg |-> seg, id |-> id])
                /\ lastEvent' = Event("deleteRequested", seg)
                /\ UNCHANGED <<list, selectedSegment>>
           ELSE IF InList(seg)
           THEN /\ list' = Remove(list, seg)
                /\ selectedSegment' = Null
                /\ isSegmentDeleting' = FALSE
                /\ lastEvent' = Event("deletedLocally", seg)
                /\ UNCHANGED deleteRequests
           ELSE \* regions.list[id] is undefined: remove() throws after
                \* the first setState
                /\ isSegmentDeleting' = TRUE
                /\ lastEvent' = Event("deleteThrew", seg)
                /\ UNCHANGED <<list, selectedSegment, deleteRequests>>
    /\ UNCHANGED <<dataLoad, isDataLoading, labels, ready, objs,
                   isSegmentSaving, errorMessage, successMessage,
                   saveRequests, nextBackendId, origin, segmentations>>
    /\ UNCHANGED <<isPlaying, segmentTranscription>>
    /\ UNCHANGED <<listLoad, reviewRequests>>

\* The then handler of the DELETE request gone wrong: no catch handler runs
\* when remove() throws, so isSegmentDeleting is left as it is.
DeleteSuccessUncaught(i) ==
    /\ i \in DOMAIN deleteRequests
    /\ LET seg == deleteRequests[i].seg
       IN  /\ IF InList(seg)
              THEN /\ list' = Remove(list, seg)
                   /\ selectedSegment' = Null
                   /\ isSegmentDeleting' = FALSE
              ELSE UNCHANGED <<list, selectedSegment, isSegmentDeleting>>
           /\ lastEvent' = Event("deleteSucceeded", seg)
    /\ deleteRequests' = RemoveAt(deleteRequests, i)
    /\ UNCHANGED <<dataLoad, isDataLoading, labels, ready, objs,
                   isSegmentSaving, errorMessage, successMessage,
                   saveRequests, nextBackendId, origin, segmentations>>
    /\ UNCHANGED <<isPlaying, segmentTranscription>>
    /\ UNCHANGED <<listLoad, reviewRequests>>

\* The then handler of the DELETE request; when the region is no longer in
\* regions.list, remove() throws and the catch handler runs instead.
DeleteSuccess(i) ==
    /\ i \in DOMAIN deleteRequests
    /\ LET seg == deleteRequests[i].seg
       IN  /\ IF InList(seg)
              THEN /\ list' = Remove(list, seg)
                   /\ selectedSegment' = Null
              ELSE UNCHANGED <<list, selectedSegment>>
           /\ lastEvent' = Event("deleteSucceeded", seg)
    /\ isSegmentDeleting' = FALSE
    /\ deleteRequests' = RemoveAt(deleteRequests, i)
    /\ UNCHANGED <<dataLoad, isDataLoading, labels, ready, objs,
                   isSegmentSaving, errorMessage, successMessage,
                   saveRequests, nextBackendId, origin, segmentations>>
    /\ UNCHANGED <<isPlaying, segmentTranscription>>
    /\ UNCHANGED <<listLoad, reviewRequests>>

\* The catch handler of the DELETE request gone wrong: it sets the state
\* the then handler sets.
DeleteFailureClearsSelection(i) ==
    /\ i \in DOMAIN deleteRequests
    /\ isSegmentDeleting' = FALSE
    /\ selectedSegment' = Null
    /\ lastEvent' = Event("deleteFailed", deleteRequests[i].seg)
    /\ deleteRequests' = RemoveAt(deleteRequests, i)
    /\ UNCHANGED <<dataLoad, isDataLoading, labels, ready, objs,
                   list, isSegmentSaving, errorMessage,
                   successMessage, saveRequests, nextBackendId, origin,
                   segmentations>>
    /\ UNCHANGED <<isPlaying, segmentTranscription>>
    /\ UNCHANGED <<listLoad, reviewRequests>>

\* The catch handler of the DELETE request.
DeleteFailure(i) ==
    /\ i \in DOMAIN deleteRequests
    /\ isSegmentDeleting' = FALSE
    /\ lastEvent' = Event("deleteFailed", deleteRequests[i].seg)
    /\ deleteRequests' = RemoveAt(deleteRequests, i)
    /\ UNCHANGED <<dataLoad, isDataLoading, labels, ready, objs,
                   list, selectedSegment, isSegmentSaving, errorMessage,
                   successMessage, saveRequests, nextBackendId, origin, segmentations>>
    /\ UNCHANGED <<isPlaying, segmentTranscription>>
    /\ UNCHANGED <<listLoad, reviewRequests>>

\* handleSegmentSave gone wrong: the test for a missing segmentation_id
\* never succeeds, so every save is a PUT.
HandleSegmentSaveAlwaysPut ==
    /\ ControlsShown
    /\ ~isSegmentSaving
    /\ LET seg == selectedSegment
           id == objs[seg].data.segmentation_id
       IN  /\ saveRequests' = Append(saveRequests,
                 [method |-> "put", seg |-> seg, id |-> id,
                  data |-> SaveBody(objs[seg])])
           /\ lastEvent' = Event("saveRequested", seg)
    /\ isSegmentSaving' = TRUE
    /\ UNCHANGED <<dataLoad, isDataLoading, labels, ready, objs,
                   list, selectedSegment, isSegmentDeleting, errorMessage,
                   successMessage, deleteRequests, nextBackendId, origin,
                   segmentations>>
    /\ UNCHANGED <<isPlaying, segmentTranscription>>
    /\ UNCHANGED <<listLoad, reviewRequests>>

\* handleSegmentSave, reached through the Save button
\* (disabled = isSegmentSaving).
HandleSegmentSave ==
    /\ ControlsShown
    /\ ~isSegmentSaving
    /\ LET seg == selectedSegment
           id == objs[seg].data.segmentation_id
       IN  /\ saveRequests' = Append(saveRequests,
                 [method |-> IF id = NoId THEN "post" ELSE "put",
                  seg |-> seg, id |-> id, data |-> SaveBody(objs[seg])])
           /\ lastEvent' = Event("saveRequested", seg)
    /\ isSegmentSaving' = TRUE
    /\ UNCHANGED <<dataLoad, isDataLoading, labels, ready, objs,
                   list, selectedSegment, isSegmentDeleting, errorMessage,
                   successMessage, deleteRequests, nextBackendId, origin, segmentations>>
    /\ UNCHANGED <<isPlaying, segmentTranscription>>
    /\ UNCHANGED <<listLoad, reviewRequests>>

\* The then handler of the POST request gone wrong: the identifier is
\* written into the segment that is selected when the response arrives.
CreateSuccessWritesSelected(i) ==
    /\ i \in DOMAIN saveRequests
    /\ saveRequests[i].method = "post"
    /\ LET seg == saveRequests[i].seg
       IN  /\ objs' = IF selectedSegment = Null THEN objs
                      ELSE [objs EXCEPT ![selectedSegment].data.segmentation_id =
                                          nextBackendId]
           /\ selectedSegment' = seg
           /\ lastEvent' = Event("createSucceeded", seg)
    /\ nextBackendId' = nextBackendId + 1
    /\ isSegmentSaving' = FALSE
    /\ successMessage' = SavedMsg
    /\ errorMessage' = NullMsg
    /\ saveRequests' = RemoveAt(saveRequests, i)
    /\ UNCHANGED <<dataLoad, isDataLoading, labels, ready, list,
                   isSegmentDeleting, deleteRequests, origin, segmentations>>
    /\ UNCHANGED <<isPlaying, segmentTranscription>>
    /\ UNCHANGED <<listLoad, reviewRequests>>

\* The then handler of the POST request: the backend answers with the
\* identifier of the row it created.
CreateSuccess(i) ==
    /\ i \in DOMAIN saveRequests
    /\ saveRequests[i].method = "post"
    /\ LET seg == saveRequests[i].seg
       IN  /\ objs' = [objs EXCEPT ![seg].data.segmentation_id = nextBackendId]
           /\ selectedSegment' = seg
           /\ lastEvent' = Event("createSucceeded", seg)
    /\ nextBackendId' = nextBackendId + 1
    /\ isSegmentSaving' = FALSE
    /\ successMessage' = SavedMsg
    /\ errorMessage' = NullMsg
    /\ saveRequests' = RemoveAt(saveRequests, i)
    /\ UNCHANGED <<dataLoad, isDataLoading, labels, ready, list,
                   isSegmentDeleting, deleteRequests, origin, segmentations>>
    /\ UNCHANGED <<isPlaying, segmentTranscription>>
    /\ UNCHANGED <<listLoad, reviewRequests>>

\* The catch handler of the POST request gone wrong: it puts the record back
\* to the transcription and annotations that the request carried.
CreateFailureRollsBack(i) ==
    /\ i \in DOMAIN saveRequests
    /\ saveRequests[i].method = "post"
    /\ objs' = [objs EXCEPT
                  ![saveRequests[i].seg].data.transcription =
                      saveRequests[i].data.transcription,
                  ![saveRequests[i].seg].data.annotations =
                      saveRequests[i].data.annotations]
    /\ isSegmentSaving' = FALSE
    /\ errorMessage' = SaveErrorMsg
    /\ successMessage' = NullMsg
    /\ lastEvent' = Event("createFailed", saveRequests[i].seg)
    /\ saveRequests' = RemoveAt(saveRequests, i)
    /\ UNCHANGED <<dataLoad, isDataLoading, labels, ready,
                   list, selectedSegment, isSegmentDeleting, deleteRequests,
                   nextBackendId, origin, segmentations>>
    /\ UNCHANGED <<isPlaying, segmentTranscription>>
    /\ UNCHANGED <<listLoad, reviewRequests>>

\* The catch handler of the POST request.
CreateFailure(i) ==
    /\ i \in DOMAIN saveRequests
    /\ saveRequests[i].method = "post"
    /\ isSegmentSaving' = FALSE
    /\ errorMessage' = SaveErrorMsg
    /\ successMessage' = NullMsg
    /\ lastEvent' = Event("createFailed", saveRequests[i].seg)
    /\ saveRequests' = RemoveAt(saveRequests, i)
    /\ UNCHANGED <<dataLoad, isDataLoading, labels, ready, objs,
                   list, selectedSegment, isSegmentDeleting, deleteRequests,
                   nextBackendId, origin, segmentations>>
    /\ UNCHANGED <<isPlaying, segmentTranscription>>
    /\ UNCHANGED <<listLoad, reviewRequests>>

\* The then handler of the PUT request gone wrong: like the POST handler,
\* it stores the segmentation_id of the response body in the record.
UpdateSuccessStoresBodyId(i, bodyId) ==
    /\ i \in DOMAIN saveRequests
    /\ saveRequests[i].method = "put"
    /\ objs' = [objs EXCEPT ![saveRequests[i].seg].data.segmentation_id = bodyId]
    /\ isSegmentSaving' = FALSE
    /\ successMessage' = SavedMsg
    /\ errorMessage' = NullMsg
    /\ lastEvent' = Event("updateSucceeded", saveRequests[i].seg)
    /\ saveRequests' = RemoveAt(saveRequests, i)
    /\ UNCHANGED <<dataLoad, isDataLoading, labels, ready,
                   list, selectedSegment, isSegmentDeleting, deleteRequests,
                   nextBackendId, origin, segmentations>>
    /\ UNCHANGED <<isPlaying, segmentTranscription>>
    /\ UNCHANGED <<listLoad, reviewRequests>>

\* The then handler of the PUT request; bodyId is the segmentation_id of
\* the response body, which the handler does not read.
UpdateSuccess(i, bodyId) ==
    /\ i \in DOMAIN saveRequests
    /\ saveRequests[i].method = "put"
    /\ isSegmentSaving' = FALSE
    /\ successMessage' = SavedMsg
    /\ errorMessage' = NullMsg
    /\ lastEvent' = Event("updateSucceeded", saveRequests[i].seg)
    /\ saveRequests' = RemoveAt(saveRequests, i)
    /\ UNCHANGED <<dataLoad, isDataLoading, labels, ready, objs,
                   list, selectedSegment, isSegmentDeleting, deleteRequests,
                   nextBackendId, origin, segmentations>>
    /\ UNCHANGED <<isPlaying, segmentTranscription>>
    /\ UNCHANGED <<listLoad, reviewRequests>>

\* The catch handler of the PUT request.
UpdateFailure(i) ==
    /\ i \in DOMAIN saveRequests
    /\ saveRequests[i].method = "put"
    /\ isSegmentSaving' = FALSE
    /\ errorMessage' = SaveErrorMsg
    /\ successMessage' = NullMsg
    /\ lastEvent' = Event("updateFailed", saveRequests[i].seg)
    /\ saveRequests' = RemoveAt(saveRequests, i)
    /\ UNCHANGED <<dataLoad, isDataLoading, labels, ready, objs,
                   list, selectedSegment, isSegmentDeleting, deleteRequests,
                   nextBackendId, origin, segmentations>>
    /\ UNCHANGED <<isPlaying, segmentTranscription>>
    /\ UNCHANGED <<listLoad, reviewRequests>>

\* A message is truthy when it is neither null, undefined nor the empty
\* string.
Shown(message) == message \notin {NullMsg, Undefined, ""}

\* handleAlertDismiss, reached through the close button of a shown alert.
HandleAlertDismiss ==
    /\ Shown(errorMessage) \/ Shown(successMessage)
    /\ errorMessage' = ""
    /\ successMessage' = ""
    /\ lastEvent' = Event("dismiss", Null)
    /\ UNCHANGED <<dataLoad, isDataLoading, labels, ready, objs,
                   list, selectedSegment, isSegmentSaving, isSegmentDeleting,
                   saveRequests, deleteRequests, nextBackendId, origin, segmentations>>
    /\ UNCHANGED <<isPlaying, segmentTranscription>>
    /\ UNCHANGED <<listLoad, reviewRequests>>

(***************************************************************************)
(* The load of the data list (GET apiUrl) and the review checkbox.         *)
(***************************************************************************)
\* The messages of the backend's error responses.
ServerMessages == {"Internal error"}

\* The then handler of GET apiUrl. hasOther: the list holds an item other
\* than the one being annotated; without one, nextRandomData is undefined,
\* the handler throws before setState, and the catch handler throws in turn
\* on error.response (the error is a TypeError, not a response).
ListLoadSuccess(hasOther) ==
    /\ listLoad = "pending"
    /\ listLoad' = "done"
    /\ IF hasOther
       THEN /\ isDataLoading' = FALSE
            /\ lastEvent' = Event("listLoaded", Null)
       ELSE /\ UNCHANGED isDataLoading
            /\ lastEvent' = Event("listThrew", Null)
    /\ UNCHANGED <<dataLoad, labels, ready, objs, list, selectedSegment,
                   isSegmentSaving, isSegmentDeleting, errorMessage,
                   successMessage, saveRequests, deleteRequests,
                   nextBackendId, isPlaying, segmentTranscription, origin,
                   segmentations, reviewRequests>>

\* The catch handler of GET apiUrl. hasResponse: the error carries a
\* response with a body; without one (the server was not reached) reading
\* error.response.data throws before setState. message: the message of the
\* body, Undefined when the body has none; setState then stores undefined
\* in errorMessage and no alert is drawn.
ListLoadFailure(hasResponse, message) ==
    /\ listLoad = "pending"
    /\ listLoad' = "failed"
    /\ IF hasResponse
       THEN /\ errorMessage' = message
            /\ isDataLoading' = FALSE
            /\ lastEvent' = Event("listFailed", Null)
       ELSE /\ UNCHANGED <<errorMessage, isDataLoading>>
            /\ lastEvent' = Event("listFailedThrew", Null)
    /\ UNCHANGED <<dataLoad, labels, ready, objs, list, selectedSegment,
                   isSegmentSaving, isSegmentDeleting,
                   successMessage, saveRequests, deleteRequests,
                   nextBackendId, isPlaying, segmentTranscription, origin,
                   segmentations, reviewRequests>>

\* handleIsMarkedForReview, reached through the "Mark for review" checkbox
\* (drawn when isDataLoading is false).
HandleIsMarkedForReview ==
    /\ ~isDataLoading
    /\ reviewRequests < MaxReviews
    /\ isDataLoading' = TRUE
    /\ reviewRequests' = reviewRequests + 1
    /\ lastEvent' = Event("reviewRequested", Null)
    /\ UNCHANGED <<dataLoad, labels, ready, objs, list, selectedSegment,
                   isSegmentSaving, isSegmentDeleting, errorMessage,
                   successMessage, saveRequests, deleteRequests,
                   nextBackendId, isPlaying, segmentTranscription, origin,
                   segmentations, listLoad>>

\* The then handler of the PATCH request.
ReviewSuccess ==
    /\ reviewRequests > 0
    /\ reviewRequests' = reviewRequests - 1
    /\ isDataLoading' = FALSE
    /\ errorMessage' = NullMsg
    /\ successMessage' = ReviewedMsg
    /\ lastEvent' = Event("reviewSucceeded", Null)
    /\ UNCHANGED <<dataLoad, labels, ready, objs, list, selectedSegment,
                   isSegmentSaving, isSegmentDeleting,
                   saveRequests, deleteRequests,
                   nextBackendId, isPlaying, segmentTranscription, origin,
                   segmentations, listLoad>>

\* The catch handler of the PATCH request.
ReviewFailure ==
    /\ reviewRequests > 0
    /\ reviewRequests' = reviewRequests - 1
    /\ isDataLoading' = FALSE
    /\ errorMessage' = ReviewErrorMsg
    /\ successMessage' = NullMsg
    /\ lastEvent' = Event("reviewFailed", Null)
    /\ UNCHANGED <<dataLoad, labels, ready, objs, list, selectedSegment,
                   isSegmentSaving, isSegmentDeleting,
                   saveRequests, deleteRequests,
                   nextBackendId, isPlaying, segmentTranscription, origin,
                   segmentations, listLoad>>

\* The answers of the backend that are not about a segment, and the
\* checkbox.
PageStep ==
    \/ \E hasOther \in BOOLEAN : ListLoadSuccess(hasOther)
    \/ \E hasResponse \in BOOLEAN, message \in ServerMessages \cup {Undefined} :
           ListLoadFailure(hasResponse, message)
    \/ HandleIsMarkedForReview
    \/ ReviewSuccess
    \/ ReviewFailure

(***************************************************************************)
(* Playback and the read-only transcription line.                          *)
(***************************************************************************)
\* showSegmentTranscription: the region's transcription, or a dash when
\* there is no region or its transcription is missing or empty.
ShownTranscription(r) ==
    IF r = Null \/ objs[r].data.transcription \in {Undefined, ""}
    THEN NoText
    ELSE objs[r].data.transcription

\* wavesurfer.on("region-in") gone wrong: the entered region also becomes
\* the selected segment.
RegionInSelects(r) ==
    /\ ready
    /\ InList(r)
    /\ segmentTranscription' = ShownTranscription(r)
    /\ selectedSegment' = r
    /\ lastEvent' = Event("regionIn", r)
    /\ UNCHANGED <<dataLoad, isDataLoading, labels, ready, objs, list,
                   isSegmentSaving, isSegmentDeleting,
                   errorMessage, successMessage, saveRequests, deleteRequests,
                   nextBackendId, isPlaying, origin, segmentations>>
    /\ UNCHANGED <<listLoad, reviewRequests>>

\* wavesurfer.on("region-in"): the playhead enters a region of the list.
RegionIn(r) ==
    /\ ready
    /\ InList(r)
    /\ segmentTranscription' = ShownTranscription(r)
    /\ lastEvent' = Event("regionIn", r)
    /\ UNCHANGED <<dataLoad, isDataLoading, labels, ready, objs, list,
                   selectedSegment, isSegmentSaving, isSegmentDeleting,
                   errorMessage, successMessage, saveRequests, deleteRequests,
                   nextBackendId, isPlaying, origin, segmentations>>
    /\ UNCHANGED <<listLoad, reviewRequests>>

\* wavesurfer.on("region-out"): the playhead leaves a region.
RegionOut ==
    /\ ready
    /\ Len(list) > 0
    /\ segmentTranscription' = ShownTranscription(Null)
    /\ lastEvent' = Event("regionOut", Null)
    /\ UNCHANGED <<dataLoad, isDataLoading, labels, ready, objs, list,
                   selectedSegment, isSegmentSaving, isSegmentDeleting,
                   errorMessage, successMessage, saveRequests, deleteRequests,
                   nextBackendId, isPlaying, origin, segmentations>>
    /\ UNCHANGED <<listLoad, reviewRequests>>

\* wavesurfer.on("pause") gone wrong: the handler leaves isPlaying as it is.
PauseKeepsPlaying ==
    /\ ready
    /\ isPlaying
    /\ lastEvent' = Event("pause", Null)
    /\ UNCHANGED <<dataLoad, isDataLoading, labels, ready, objs, list,
                   selectedSegment, isSegmentSaving, isSegmentDeleting,
                   errorMessage, successMessage, saveRequests, deleteRequests,
                   nextBackendId, isPlaying, segmentTranscription, origin,
                   segmentations>>
    /\ UNCHANGED <<listLoad, reviewRequests>>

\* wavesurfer.on("pause"): the engine pauses, at the end of the range it was
\* asked to play or through the "out" handler that "region-play" registers
\* on the played region (play(r.start), then pause()).
Pause ==
    /\ ready
    /\ isPlaying
    /\ isPlaying' = FALSE
    /\ lastEvent' = Event("pause", Null)
    /\ UNCHANGED <<dataLoad, isDataLoading, labels, ready, objs, list,
                   selectedSegment, isSegmentSaving, isSegmentDeleting,
                   errorMessage, successMessage, saveRequests, deleteRequests,
                   nextBackendId, segmentTranscription, origin, segmentations>>
    /\ UNCHANGED <<listLoad, reviewRequests>>

\* handlePlay, reached through the Play button (drawn when isDataLoading is
\* false and nothing plays). this.state.wavesurfer is set by the then
\* handler of the data load; while it is null, wavesurfer.play() throws
\* after the setState.
HandlePlay ==
    /\ ~isDataLoading
    /\ ~isPlaying
    /\ isPlaying' = TRUE
    /\ lastEvent' = Event(IF dataLoad = "done" THEN "play" ELSE "playThrew", Null)
    /\ UNCHANGED <<dataLoad, isDataLoading, labels, ready, objs, list,
                   selectedSegment, isSegmentSaving, isSegmentDeleting,
                   errorMessage, successMessage, saveRequests, deleteRequests,
                   nextBackendId, segmentTranscription, origin, segmentations>>
    /\ UNCHANGED <<listLoad, reviewRequests>>

\* handlePause, reached through the Pause button (drawn when isDataLoading
\* is false and something plays); wavesurfer.pause() throws after the
\* setState while this.state.wavesurfer is null.
HandlePause ==
    /\ ~isDataLoading
    /\ isPlaying
    /\ isPlaying' = FALSE
    /\ lastEvent' = Event(IF dataLoad = "done" THEN "pauseClicked" ELSE "pauseThrew",
                          Null)
    /\ UNCHANGED <<dataLoad, isDataLoading, labels, ready, objs, list,
                   selectedSegment, isSegmentSaving, isSegmentDeleting,
                   errorMessage, successMessage, saveRequests, deleteRequests,
                   nextBackendId, segmentTranscription, origin, segmentations>>
    /\ UNCHANGED <<listLoad, reviewRequests>>

(***************************************************************************)
(* The editing handlers. render draws their controls only while a segment  *)
(* is selected; the handlers themselves do not test the selection.         *)
(***************************************************************************)
\* What the user types into the transcription box.
TypedTexts == {"hi"}

\* handleTranscriptionChange: with no selection, selectedSegment.data throws
\* a TypeError before any state is set.
HandleTranscriptionChange(text) ==
    /\ dataLoad = "done"
    /\ IF selectedSegment = Null
       THEN /\ lastEvent' = InputEvent("transcriptionThrew", Null, "", {text})
            /\ UNCHANGED objs
       ELSE /\ objs' = [objs EXCEPT ![selectedSegment].data.transcription = text]
            /\ lastEvent' = InputEvent("transcription", selectedSegment, "", {text})
    /\ UNCHANGED <<dataLoad, isDataLoading, labels, ready, list,
                   selectedSegment, isSegmentSaving, isSegmentDeleting,
                   errorMessage, successMessage, saveRequests, deleteRequests,
                   nextBackendId, isPlaying, segmentTranscription, origin,
                   segmentations>>
    /\ UNCHANGED <<listLoad, reviewRequests>>

LabelOf(key) == CHOOSE l \in labels : l.key = key

\* What the select of a label can report: any set of its options for a
\* multiselect, one option or the "-1" placeholder otherwise.
Reports(label) ==
    IF label.type = "multiselect"
    THEN SUBSET label.values
    ELSE { {v} : v \in label.values \cup {"-1"} }

\* annotations[key] = entry
WithEntry(annotations, entry) ==
    [defined |-> TRUE,
     entries |-> {e \in annotations.entries : e.key # entry.key} \cup {entry}]

\* handleLabelChange gone wrong: a multiselect adds the reported values to
\* those already stored.
HandleLabelChangeUnion(key, reported) ==
    /\ dataLoad = "done"
    /\ \E l \in labels : l.key = key /\ reported \in Reports(l)
    /\ IF selectedSegment = Null
       THEN /\ lastEvent' = InputEvent("labelThrew", Null, key, reported)
            /\ UNCHANGED objs
       ELSE LET old == objs[selectedSegment].data.annotations
                stored == UNION {e.values : e \in {x \in old.entries : x.key = key}}
                entry == [key |-> key, label_id |-> LabelOf(key).label_id,
                          multi |-> LabelOf(key).type = "multiselect",
                          values |-> IF LabelOf(key).type = "multiselect"
                                     THEN stored \cup reported ELSE reported]
            IN  /\ objs' = [objs EXCEPT ![selectedSegment].data.annotations =
                                          WithEntry(old, entry)]
                /\ lastEvent' = InputEvent("label", selectedSegment, key, reported)
    /\ UNCHANGED <<dataLoad, isDataLoading, labels, ready, list,
                   selectedSegment, isSegmentSaving, isSegmentDeleting,
                   errorMessage, successMessage, saveRequests, deleteRequests,
                   nextBackendId, isPlaying, segmentTranscription, origin,
                   segmentations>>
    /\ UNCHANGED <<listLoad, reviewRequests>>

\* handleLabelChange(key, e): reported is the set of selected options of a
\* multiselect, or the one value of a single select. With no selection,
\* selectedSegment.data throws a TypeError before any state is set.
HandleLabelChange(key, reported) ==
    /\ dataLoad = "done"
    /\ \E l \in labels : l.key = key /\ reported \in Reports(l)
    /\ IF selectedSegment = Null
       THEN /\ lastEvent' = InputEvent("labelThrew", Null, key, reported)
            /\ UNCHANGED objs
       ELSE LET old == objs[selectedSegment].data.annotations
                entry == [key |-> key, label_id |-> LabelOf(key).label_id,
                          multi |-> LabelOf(key).type = "multiselect",
                          values |-> reported]
            IN  /\ objs' = [objs EXCEPT ![selectedSegment].data.annotations =
                                          WithEntry(old, entry)]
                /\ lastEvent' = InputEvent("label", selectedSegment, key, reported)
    /\ UNCHANGED <<dataLoad, isDataLoading, labels, ready, list,
                   selectedSegment, isSegmentSaving, isSegmentDeleting,
                   errorMessage, successMessage, saveRequests, deleteRequests,
                   nextBackendId, isPlaying, segmentTranscription, origin,
                   segmentations>>
    /\ UNCHANGED <<listLoad, reviewRequests>>

(***************************************************************************)
(* The way of a save through the backend and back.                         *)
(***************************************************************************)
\* The request body as axios sends it (JSON.stringify): a mapping from the
\* keys that are written to their values, a key whose value is undefined
\* being left out.
JsonOf(body) ==
    LET written == {"start", "end"}
                   \cup (IF body.transcription # Undefined
                         THEN {"transcription"} ELSE {})
                   \cup (IF body.annotations.defined
                         THEN {"annotations"} ELSE {})
    IN  [k \in written |->
           CASE k = "start" -> body.start
             [] k = "end" -> body.end
             [] k = "transcription" -> body.transcription
             [] OTHER -> body.annotations]

\* json[key]: undefined when the key is absent.
Field(json, key) == IF key \in DOMAIN json THEN json[key] ELSE Undefined

\* The segmentation entry by which the backend gives back what it was sent
\* under the identifier id: start and end as start_time and end_time,
\* transcription and annotations as they came.
BackendEcho(json, id) ==
    [segmentation_id |-> id,
     start_time |-> Field(json, "start"),
     end_time |-> Field(json, "end"),
     transcription |-> Field(json, "transcription"),
     annotations |-> IF "annotations" \in DOMAIN json
                     THEN json["annotations"] ELSE UndefinedAnnotations]

\* The region that a later load builds from the entry echoed for a save of
\* region.
RoundTrip(region, id) == RegionOf(BackendEcho(JsonOf(SaveBody(region)), id))

(***************************************************************************)
(* The specification.                                                      *)
(***************************************************************************)
\* The identifiers a PUT response body may carry: none, or one that no
\* record holds.
ResponseIds == {NoId, nextBackendId}

Next ==
    \/ \E segs \in BackendLists : DataLoadSuccess(segs)
    \/ DataLoadMalformed
    \/ DataLoadFailure
    \/ Ready
    \/ \E range \in TimeRanges : DrawRegion(range[1], range[2])
    \/ \E r \in 1 .. MaxRegions : RegionClick(r)
    \/ HandleSegmentDelete
    \/ \E i \in 1 .. MaxRegions : DeleteSuccess(i)
    \/ \E i \in 1 .. MaxRegions : DeleteFailure(i)
    \/ HandleSegmentSave
    \/ \E i \in 1 .. MaxRegions : CreateSuccess(i)
    \/ \E i \in 1 .. MaxRegions : CreateFailure(i)
    \/ \E i \in 1 .. MaxRegions, bodyId \in ResponseIds : UpdateSuccess(i, bodyId)
    \/ \E i \in 1 .. MaxRegions : UpdateFailure(i)
    \/ HandleAlertDismiss
    \/ PageStep

Spec == Init /\ [][Next]_vars

\* The option values and label keys of the catalog.
LabelKeys == {l.key : l \in LabelCatalog}
OptionSets == UNION {Reports(l) : l \in LabelCatalog}
\* The keys of the labels drawn as a multiple select.
MultiKeys == {l.key : l \in {x \in LabelCatalog : x.type = "multiselect"}}

\* The segmentation lists loaded when the label selects are explored.
EditLists == {segs \in BackendLists : Len(segs) <= MaxEditSegs}

\* The page as an annotation form: load, selection by click, and changes of
\* the multiple selects.
NextEdit ==
    \/ \E segs \in EditLists : DataLoadSuccess(segs)
    \/ Ready
    \/ \E r \in 1 .. MaxRegions : RegionClick(r)
    \/ \E key \in MultiKeys, reported \in OptionSets : HandleLabelChange(key, reported)
    \/ PageStep

SpecEdit == Init /\ [][NextEdit]_vars

\* A session on an audio item without segmentations: the record added by
\* "ready" is edited and saved, and the saves are answered.
NextDraft ==
    \/ DataLoadSuccess(<< >>)
    \/ Ready
    \/ \E text \in TypedTexts : HandleTranscriptionChange(text)
    \/ \E key \in LabelKeys, reported \in OptionSets : HandleLabelChange(key, reported)
    \/ HandleSegmentSave
    \/ \E i \in 1 .. MaxRegions : CreateSuccess(i)
    \/ \E i \in 1 .. MaxRegions : CreateFailure(i)
    \/ \E i \in 1 .. MaxRegions, bodyId \in ResponseIds : UpdateSuccess(i, bodyId)
    \/ \E i \in 1 .. MaxRegions : UpdateFailure(i)
    \/ PageStep

SpecDraft == Init /\ [][NextDraft]_vars

TagsAnnotations ==
    [defined |-> TRUE,
     entries |-> {[key |-> "mood", label_id |-> 1, multi |-> FALSE, values |-> {"-1"}],
                  [key |-> "tags", label_id |-> 2, multi |-> TRUE, values |-> {"2", "5"}]}]

\* Segmentation rows over all time ranges, with and without transcription,
\* with no, a single-choice and a multi-choice annotation.
RoundTripRows ==
    { [segmentation_id |-> 1, start_time |-> range[1], end_time |-> range[2],
       transcription |-> text, annotations |-> annotations] :
        range \in TimeRanges, text \in {"hello", ""},
        annotations \in {EmptyAnnotations, MoodAnnotations, TagsAnnotations} }

\* A session on an audio item with at most one segmentation, whose record
\* (or the record added by "ready") is selected and saved.
NextRoundTrip ==
    \/ \E segs \in {<< >>} \cup {<<row>> : row \in RoundTripRows} : DataLoadSuccess(segs)
    \/ Ready
    \/ \E r \in 1 .. MaxRegions : RegionClick(r)
    \/ HandleSegmentSave
    \/ \E i \in 1 .. MaxRegions : CreateSuccess(i)
    \/ \E i \in 1 .. MaxRegions : CreateFailure(i)
    \/ \E i \in 1 .. MaxRegions, bodyId \in ResponseIds : UpdateSuccess(i, bodyId)
    \/ \E i \in 1 .. MaxRegions : UpdateFailure(i)
    \/ PageStep

SpecRoundTrip == Init /\ [][NextRoundTrip]_vars

\* The backend answers a save request, a delete request.
SaveResponse ==
    \E i \in 1 .. MaxRegions :
        \/ CreateSuccess(i)
        \/ CreateFailure(i)
        \/ \E bodyId \in ResponseIds : UpdateSuccess(i, bodyId)
        \/ UpdateFailure(i)

DeleteResponse ==
    \E i \in 1 .. MaxRegions : DeleteSuccess(i) \/ DeleteFailure(i)

\* The page with a backend that answers every request: load of no or one
\* segmentation, drawing over the whole audio, clicks, saves and deletes.
NextLive ==
    \/ \E segs \in {<< >>, <<BackendRow(1)>>} : DataLoadSuccess(segs)
    \/ Ready
    \/ DrawRegion(0, Duration)
    \/ \E r \in 1 .. MaxRegions : RegionClick(r)
    \/ HandleSegmentSave
    \/ HandleSegmentDelete
    \/ SaveResponse
    \/ DeleteResponse
    \/ PageStep

SpecLive ==
    Init /\ [][NextLive]_vars /\ WF_vars(SaveResponse) /\ WF_vars(DeleteResponse)

\* The same page when the load answers with one stored segmentation: the
\* loaded region and the drawn ones, their saves and deletes, and a backend
\* that answers every request.
NextFlags ==
    \/ DataLoadSuccess(<<BackendRow(1)>>)
    \/ Ready
    \/ DrawRegion(0, Duration)
    \/ \E r \in 1 .. MaxRegions : RegionClick(r)
    \/ HandleSegmentSave
    \/ HandleSegmentDelete
    \/ SaveResponse
    \/ DeleteResponse
    \/ PageStep

SpecFlags ==
    Init /\ [][NextFlags]_vars /\ WF_vars(SaveResponse) /\ WF_vars(DeleteResponse)

\* The page while it loads: the answers to the load of labels and
\* segmentation data, "ready", drawing and clicks.
NextLoad ==
    \/ \E segs \in BackendLists : DataLoadSuccess(segs)
    \/ DataLoadMalformed
    \/ DataLoadFailure
    \/ Ready
    \/ \E range \in TimeRanges : DrawRegion(range[1], range[2])
    \/ \E r \in 1 .. MaxRegions : RegionClick(r)
    \/ PageStep

SpecLoad == Init /\ [][NextLoad]_vars

\* The page as a player: load, clicks, the playhead entering and
\* leaving regions, play and pause. Playback that was started comes to a
\* pause: the engine stops at the end of the range it plays.
NextPlay ==
    \/ \E segs \in BackendLists : DataLoadSuccess(segs)
    \/ Ready
    \/ \E r \in 1 .. MaxRegions : RegionClick(r)
    \/ \E r \in 1 .. MaxRegions : RegionIn(r)
    \/ RegionOut
    \/ Pause
    \/ HandlePlay
    \/ HandlePause
    \/ PageStep

SpecPlay == Init /\ [][NextPlay]_vars /\ WF_vars(Pause)

(***************************************************************************)
(* Vocabulary of the properties.                                           *)
(***************************************************************************)
BackendIdOf(r) == objs[r].data.segmentation_id

\* The step just taken ran handleSegmentDelete.
DeleteOps == {"deleteRequested", "deletedLocally", "deleteThrew"}

\* The step resolves the i-th save request in flight.
ResolvesSave(i) ==
    /\ i \in DOMAIN saveRequests
    /\ saveRequests' = RemoveAt(saveRequests, i)
    /\ lastEvent'.op \in {"createSucceeded", "createFailed",
                          "updateSucceeded", "updateFailed"}
    /\ lastEvent'.seg = saveRequests[i].seg

SavesInFlight(r) == {i \in DOMAIN saveRequests : saveRequests[i].seg = r}
DeletesInFlight(r) == {i \in DOMAIN deleteRequests : deleteRequests[i].seg = r}

(***************************************************************************)
(* C1 - A save of a record whose segmentation_id is present issues one     *)
(* PUT targeted at that identifier and no POST; when its response has been *)
(* handled, success or failure and whatever identifier the response body   *)
(* carries, the record's segmentation_id is the identifier the request was *)
(* targeted at.                                                            *)
(***************************************************************************)
C1_SyncedSaveIsUpdate ==
    [][ /\ (lastEvent'.op = "saveRequested" /\ BackendIdOf(lastEvent'.seg) # NoId)
           => saveRequests' = Append(saveRequests,
                 [method |-> "put", seg |-> lastEvent'.seg,
                  id |-> BackendIdOf(lastEvent'.seg),
                  data |-> SaveBody(objs[lastEvent'.seg])])
        /\ \A i \in DOMAIN saveRequests :
             (ResolvesSave(i) /\ saveRequests[i].method = "put")
             => /\ saveRequests[i].id # NoId
                /\ BackendIdOf(saveRequests[i].seg) = saveRequests[i].id
                /\ objs'[saveRequests[i].seg].data.segmentation_id = saveRequests[i].id
      ]_vars

\* An update of a record with an identifier has been answered successfully.
C1_Witness ==
    /\ lastEvent.op = "updateSucceeded"
    /\ BackendIdOf(lastEvent.seg) # NoId

(***************************************************************************)
(* C2 - A record that was not hydrated (auto-created or drawn) is created  *)
(* without segmentation_id and gets one only in the step that handles a    *)
(* successful create response for that record; a save of a record without  *)
(* segmentation_id issues exactly one POST for it and no PUT.              *)
(***************************************************************************)
C2_UnsyncedUntilCreated ==
    [][ /\ \A r \in DOMAIN objs' :
             (origin'[r] # "hydrated" /\ objs'[r].data.segmentation_id # NoId
                /\ (r \in DOMAIN objs => BackendIdOf(r) = NoId))
             => lastEvent' = Event("createSucceeded", r)
        /\ (lastEvent'.op = "saveRequested" /\ BackendIdOf(lastEvent'.seg) = NoId)
           => saveRequests' = Append(saveRequests,
                 [method |-> "post", seg |-> lastEvent'.seg, id |-> NoId,
                  data |-> SaveBody(objs[lastEvent'.seg])])
      ]_vars

\* A record that was not hydrated has just received its identifier.
C2_Witness ==
    /\ lastEvent.op = "createSucceeded"
    /\ origin[lastEvent.seg] # "hydrated"
    /\ BackendIdOf(lastEvent.seg) # NoId

(***************************************************************************)
(* C3 - as claimed: right after the failure of the backend delete of a     *)
(* record of the collection, the record is still in the collection and is  *)
(* still the selected record.                                              *)
(***************************************************************************)
C3_Original ==
    [][ (lastEvent'.op = "deleteFailed" /\ InList(lastEvent'.seg))
        => (lastEvent'.seg \in RangeOf(list') /\ selectedSegment' = lastEvent'.seg)
      ]_vars

(***************************************************************************)
(* C3 - as amended: a record with segmentation_id present leaves the       *)
(* collection only in the step that handles the successful response of a  *)
(* delete request for it, so it stays while the request is in flight; the  *)
(* failure of the request changes neither the collection nor the           *)
(* selection, so the record is still in the collection, and is the         *)
(* selected record exactly if it was just before the failure was handled.  *)
(***************************************************************************)
C3_DeleteOnlyOnSuccess ==
    [][ /\ \A r \in RangeOf(list) :
             (BackendIdOf(r) # NoId /\ r \notin RangeOf(list'))
             => /\ lastEvent' = Event("deleteSucceeded", r)
                /\ DeletesInFlight(r) # {}
        /\ lastEvent'.op = "deleteFailed"
           => /\ list' = list
              /\ selectedSegment' = selectedSegment
              /\ (InList(lastEvent'.seg) => lastEvent'.seg \in RangeOf(list'))
      ]_vars

\* The delete of a record of the collection has failed after a click moved
\* the selection to another record.
C3_Witness ==
    /\ lastEvent.op = "deleteFailed"
    /\ InList(lastEvent.seg)
    /\ selectedSegment # Null
    /\ selectedSegment # lastEvent.seg

(***************************************************************************)
(* C4 - handleSegmentDelete on a selected record without segmentation_id   *)
(* issues no request and, within the same step, removes the record from    *)
(* the collection, sets the selection to null and leaves isSegmentDeleting *)
(* false.                                                                  *)
(***************************************************************************)
C4_LocalDeleteIsSynchronous ==
    [][ (lastEvent'.op \in DeleteOps /\ BackendIdOf(selectedSegment) = NoId)
        => /\ lastEvent'.seg = selectedSegment
           /\ deleteRequests' = deleteRequests
           /\ saveRequests' = saveRequests
           /\ InList(selectedSegment)
           /\ list' = Remove(list, selectedSegment)
           /\ selectedSegment' = Null
           /\ isSegmentDeleting' = FALSE
      ]_vars

\* A record without identifier has just been deleted locally.
C4_Witness ==
    /\ lastEvent.op = "deletedLocally"
    /\ BackendIdOf(lastEvent.seg) = NoId
    /\ ~InList(lastEvent.seg)

(***************************************************************************)
(* C5 - Right after "ready" following the load of a segmentation list of   *)
(* length N >= 1, the collection holds exactly N records, the i-th built   *)
(* from the i-th entry (segmentation_id, start_time, end_time,             *)
(* transcription, annotations), and no full-duration record was added.     *)
(***************************************************************************)
C5_HydrationExact ==
    (lastEvent.op = "ready" /\ Len(segmentations) >= 1)
    => /\ Len(list) = Len(segmentations)
       /\ Len(objs) = Len(segmentations)
       /\ \A i \in DOMAIN segmentations :
            /\ BackendIdOf(list[i]) = segmentations[i].segmentation_id
            /\ objs[list[i]].start = segmentations[i].start_time
            /\ objs[list[i]].end = segmentations[i].end_time
            /\ objs[list[i]].data.transcription = segmentations[i].transcription
            /\ objs[list[i]].data.annotations = segmentations[i].annotations
            /\ origin[list[i]] = "hydrated"

\* "ready" has fired after the load of a list of two entries.
C5_Witness ==
    /\ lastEvent.op = "ready"
    /\ Len(segmentations) >= 2
    /\ Len(list) = Len(segmentations)

(***************************************************************************)
(* C6 - Right after "ready" following the load of an empty segmentation    *)
(* list, the collection holds exactly one record, spanning 0 to the audio  *)
(* duration, without segmentation_id, and it is the selected record.       *)
(***************************************************************************)
C6_EmptyListAutoCreates ==
    (lastEvent.op = "ready" /\ Len(segmentations) = 0)
    => /\ Len(list) = 1
       /\ objs[list[1]].start = 0
       /\ objs[list[1]].end = Duration
       /\ BackendIdOf(list[1]) = NoId
       /\ selectedSegment = list[1]

\* "ready" has fired after the load of an empty list.
C6_Witness ==
    /\ lastEvent.op = "ready"
    /\ Len(segmentations) = 0
    /\ Len(list) = 1
    /\ origin[list[1]] = "auto"

(***************************************************************************)
(* C7 - No two distinct records of the collection carry the same present   *)
(* segmentation_id (the backend lists distinct identifiers and answers     *)
(* every create with a fresh one).                                         *)
(***************************************************************************)
C7_BackendIdsUnique ==
    \A r1, r2 \in RangeOf(list) :
        (r1 # r2 /\ BackendIdOf(r1) # NoId) => BackendIdOf(r1) # BackendIdOf(r2)

\* The collection holds a hydrated record and a record that got its
\* identifier from a create response.
C7_Witness ==
    \E r1, r2 \in RangeOf(list) :
        /\ origin[r1] = "hydrated"
        /\ origin[r2] # "hydrated"
        /\ BackendIdOf(r1) # NoId
        /\ BackendIdOf(r2) # NoId

(***************************************************************************)
(* C8 - The selection is null or a record of the collection.               *)
(***************************************************************************)
C8_SelectionInCollection ==
    selectedSegment = Null \/ InList(selectedSegment)

(***************************************************************************)
(* C9 - The response of a save request whose record is no longer in the    *)
(* collection changes neither the collection, nor the selection, nor any   *)
(* record's segmentation_id.                                               *)
(***************************************************************************)
C9_LateResponseDiscarded ==
    [][ \A i \in DOMAIN saveRequests :
          (ResolvesSave(i) /\ ~InList(saveRequests[i].seg))
          => /\ list' = list
             /\ selectedSegment' = selectedSegment
             /\ \A r \in DOMAIN objs :
                  objs'[r].data.segmentation_id = BackendIdOf(r)
      ]_vars

(***************************************************************************)
(* C10 - With Save and Delete enabled as the buttons allow, no record has  *)
(* a save request and a delete request in flight together, and no record   *)
(* is deleted locally while a save request for it is in flight.            *)
(***************************************************************************)
C10_NoSaveDeleteOverlap ==
    /\ \A r \in DOMAIN objs : SavesInFlight(r) = {} \/ DeletesInFlight(r) = {}
    /\ lastEvent.op = "deletedLocally" => SavesInFlight(lastEvent.seg) = {}

(***************************************************************************)
(* C11 - The step that handles the failure of a create or update request   *)
(* changes no record (transcription, annotations and a missing             *)
(* segmentation_id stay as they were), sets errorMessage, clears           *)
(* successMessage and issues no request; a save request is issued only by  *)
(* handleSegmentSave.                                                      *)
(***************************************************************************)
C11_SaveFailureKeepsEdits ==
    [][ /\ \A i \in DOMAIN saveRequests :
             (ResolvesSave(i) /\ lastEvent'.op \in {"createFailed", "updateFailed"})
             => /\ objs' = objs
                /\ (saveRequests[i].method = "post"
                      => objs'[saveRequests[i].seg].data.segmentation_id = NoId)
                /\ errorMessage' = SaveErrorMsg
                /\ successMessage' = NullMsg
                /\ Len(saveRequests') = Len(saveRequests) - 1
                /\ deleteRequests' = deleteRequests
        /\ Len(saveRequests') > Len(saveRequests)
           => /\ lastEvent'.op = "saveRequested"
              /\ Len(saveRequests') = Len(saveRequests) + 1
      ]_vars

\* A create request has failed for a record that was edited while the
\* request was in flight: the record holds the typed text and a label, and
\* still has no identifier.
C11_Witness ==
    /\ lastEvent.op = "createFailed"
    /\ objs[lastEvent.seg].data.transcription \in TypedTexts
    /\ objs[lastEvent.seg].data.annotations.entries # {}
    /\ BackendIdOf(lastEvent.seg) = NoId
    /\ errorMessage = SaveErrorMsg
    /\ saveRequests = << >>

(***************************************************************************)
(* C12 - Right after the failure of a backend delete has been handled,     *)
(* errorMessage holds a message that is shown and that tells of the failed *)
(* delete (it is not the message of a failed save, of a failed change of   *)
(* the review flag or of the failed load of the data list).                *)
(***************************************************************************)
C12_DeleteFailureSurfaced ==
    lastEvent.op = "deleteFailed"
    => /\ Shown(errorMessage)
       /\ errorMessage \notin {SaveErrorMsg, ReviewErrorMsg} \cup ServerMessages

(***************************************************************************)
(* C13 - handleTranscriptionChange and handleLabelChange, invoked while    *)
(* selectedSegment is null, raise no error.                                *)
(***************************************************************************)
C13_EditWithoutSelectionIsSilent ==
    lastEvent.op \notin {"transcriptionThrew", "labelThrew"}

(***************************************************************************)
(* C14 - A change of a multiselect label on the selected record stores,    *)
(* as the record's entry for that label, exactly the set of values the     *)
(* change reports, whatever was stored before; the entries of the other    *)
(* labels, the rest of the record and all other records are unchanged.     *)
(***************************************************************************)
C14_LabelChangeReplaces ==
    [][ (lastEvent'.op = "label" /\ LabelOf(lastEvent'.key).type = "multiselect")
        => LET r == lastEvent'.seg
               key == lastEvent'.key
               old == objs[r].data.annotations.entries
               new == objs'[r].data.annotations.entries
           IN  /\ r = selectedSegment
               /\ {e \in new : e.key = key} =
                    {[key |-> key, label_id |-> LabelOf(key).label_id,
                      multi |-> TRUE, values |-> lastEvent'.values]}
               /\ {e \in new : e.key # key} = {e \in old : e.key # key}
               /\ objs'[r].data.annotations.defined
               /\ objs' = [objs EXCEPT ![r].data.annotations = objs'[r].data.annotations]
      ]_vars

\* The multiselect of the selected record has just been changed to a
\* proper, non-empty subset of its options, next to an entry of another
\* label and with a second record in the collection.
C14_Witness ==
    /\ lastEvent.op = "label"
    /\ LabelOf(lastEvent.key).type = "multiselect"
    /\ lastEvent.values = {"5"}
    /\ \E e \in objs[lastEvent.seg].data.annotations.entries : e.key # lastEvent.key
    /\ Len(list) > 1

(***************************************************************************)
(* C15 - as claimed: right after a region-in event the selection is the    *)
(* record of the entered region.                                           *)
(***************************************************************************)
C15_Original ==
    lastEvent.op = "regionIn" => selectedSegment = lastEvent.seg

(***************************************************************************)
(* C15 - as amended: a region-in event puts the transcription of the       *)
(* entered region on the read-only line (a dash when the transcription is  *)
(* missing or empty) and changes neither the selection, nor the            *)
(* collection, nor any record.                                             *)
(***************************************************************************)
C15_RegionInOnlyDisplays ==
    [][ lastEvent'.op = "regionIn"
        => /\ segmentTranscription' = ShownTranscription(lastEvent'.seg)
           /\ selectedSegment' = selectedSegment
           /\ list' = list
           /\ objs' = objs
      ]_vars

\* The playhead has entered a region with a transcription while another
\* region is the selected one.
C15_Witness ==
    /\ lastEvent.op = "regionIn"
    /\ selectedSegment # Null
    /\ selectedSegment # lastEvent.seg
    /\ segmentTranscription = "hello"
    /\ objs[lastEvent.seg].data.transcription = "hello"

(***************************************************************************)
(* C16 - A region-click makes the clicked region the selected segment and  *)
(* sets isPlaying; once the engine pauses at the end of the played region, *)
(* as it does when nothing else happens, isPlaying is false again: a       *)
(* click that started playback leads to a state where nothing plays.       *)
(***************************************************************************)
C16_ClickPlaysThenPauses ==
    /\ [][ lastEvent'.op = "click"
           => (selectedSegment' = lastEvent'.seg /\ isPlaying') ]_vars
    /\ (lastEvent.op = "click" /\ isPlaying) ~> ~isPlaying

\* The engine has paused after the click on a hydrated region (nothing but a
\* click selects one), which is still the selected one.
C16_Witness ==
    /\ lastEvent.op = "pause"
    /\ ~isPlaying
    /\ selectedSegment # Null
    /\ origin[selectedSegment] = "hydrated"

(***************************************************************************)
(* C17 - Right after the user has drawn a region, its record is the last   *)
(* of the collection, has no segmentation_id, no transcription and no      *)
(* annotations, and is the selected record.                                *)
(***************************************************************************)
C17_DrawnRegionSelected ==
    lastEvent.op = "draw"
    => /\ Len(list) > 0
       /\ list[Len(list)] = lastEvent.seg
       /\ BackendIdOf(lastEvent.seg) = NoId
       /\ objs[lastEvent.seg].data.transcription \in {Undefined, ""}
       /\ objs[lastEvent.seg].data.annotations.entries = {}
       /\ selectedSegment = lastEvent.seg

(***************************************************************************)
(* C18 - Right after a failed load of labels and segmentation data, be it  *)
(* a rejected request or a malformed payload, the collection is empty, no  *)
(* label of the response is in the state, and errorMessage holds a message *)
(* that is shown.                                                          *)
(***************************************************************************)
C18_LoadFailureLoud ==
    lastEvent.op \in {"dataMalformed", "dataFailed"}
    => /\ list = << >>
       /\ labels = {}
       /\ Shown(errorMessage)

(***************************************************************************)
(* C19 - For every record, the body that a save of it sends, written as    *)
(* JSON, given back by the backend as a segmentation entry and turned into *)
(* a region by the load, is a region with the same start and end, the same *)
(* transcription and the same annotations; and the body of every save      *)
(* request in flight is such that it gives back the record as it was when  *)
(* the save was asked for.                                                 *)
(***************************************************************************)
C19_RoundTrip ==
    /\ \A r \in DOMAIN objs :
         LET back == RoundTrip(objs[r], BackendIdOf(r))
         IN  /\ back.start = objs[r].start
             /\ back.end = objs[r].end
             /\ back.data.transcription = objs[r].data.transcription
             /\ back.data.annotations = objs[r].data.annotations
    /\ lastEvent.op = "saveRequested"
       => LET request == saveRequests[Len(saveRequests)]
              back == RegionOf(BackendEcho(JsonOf(request.data), request.id))
          IN  /\ back.start = objs[request.seg].start
              /\ back.end = objs[request.seg].end
              /\ back.data.transcription = objs[request.seg].data.transcription
              /\ back.data.annotations = objs[request.seg].data.annotations

\* The save of a record with transcription "hello" and the single-choice
\* annotation "mood" = "3" is in flight.
C19_Witness ==
    /\ lastEvent.op = "saveRequested"
    /\ objs[lastEvent.seg].data.transcription = "hello"
    /\ objs[lastEvent.seg].data.annotations = MoodAnnotations
    /\ saveRequests[Len(saveRequests)].data = SaveBody(objs[lastEvent.seg])

(***************************************************************************)
(* C20 - The step that handles the response of a save request, create or   *)
(* update, success or failure, leaves the selection as it was; so a record *)
(* selected by a click while the request was in flight is still the        *)
(* selected record afterwards.                                             *)
(***************************************************************************)
C20_SaveResponseKeepsSelection ==
    [][ \A i \in DOMAIN saveRequests :
          ResolvesSave(i) => selectedSegment' = selectedSegment
      ]_vars

(***************************************************************************)
(* C21 - The step that handles a successful create response writes the     *)
(* identifier of the response into the record the request was sent for,    *)
(* which had none, and changes nothing else of any record, whichever       *)
(* record is selected when the response arrives.                           *)
(***************************************************************************)
C21_CreatedIdGoesToSavedRecord ==
    [][ \A i \in DOMAIN saveRequests :
          (ResolvesSave(i) /\ lastEvent'.op = "createSucceeded")
          => /\ saveRequests[i].method = "post"
             /\ objs' = [objs EXCEPT
                           ![saveRequests[i].seg].data.segmentation_id = nextBackendId]
             /\ nextBackendId # NoId
      ]_vars

\* A create has succeeded for one record while another record of the
\* collection, drawn and never saved, is still without identifier.
C21_Witness ==
    /\ lastEvent.op = "createSucceeded"
    /\ BackendIdOf(lastEvent.seg) # NoId
    /\ \E r \in RangeOf(list) :
         /\ r # lastEvent.seg
         /\ origin[r] = "drawn"
         /\ BackendIdOf(r) = NoId

(***************************************************************************)
(* C22 - With a backend that answers every request, isSegmentSaving and    *)
(* isSegmentDeleting, once true, become false again, whatever clicks,      *)
(* local deletes and responses come in between; a flag is true only while  *)
(* a request of its kind is in flight. "Once true, false again" is written *)
(* as "false again and again": flag ~> ~flag and []<>~flag are the same    *)
(* property.                                                               *)
(***************************************************************************)
C22_FlagsReleased ==
    /\ [](isSegmentSaving => saveRequests # << >>)
    /\ [](isSegmentDeleting => deleteRequests # << >>)
    /\ []<>(~isSegmentSaving)
    /\ []<>(~isSegmentDeleting)

\* The delete of a record that was no longer in the collection has been
\* answered with success: remove() threw, the selection is as it was and
\* isSegmentDeleting is false.
C22_Witness ==
    /\ lastEvent.op = "deleteSucceeded"
    /\ selectedSegment = lastEvent.seg
    /\ ~InList(lastEvent.seg)
    /\ ~isSegmentDeleting

====
